---- MODULE Spec2Model ----
(***************************************************************************)
(* Fingerprint door lock (finger.ino): one sequential control thread that  *)
(* reads serial commands, enrolls fingerprints into the sensor's template  *)
(* database, scans for enrolled fingers and drives the door relay.         *)
(*                                                                         *)
(* The thread is modelled by its position pc; a step is the code between   *)
(* two blocking points (a delay or a polling iteration).  The sensor and   *)
(* the serial line are the environment: every status code a call can       *)
(* return is a nondeterministic choice.  The sensor database is whatever   *)
(* the module held at power-up: setup does not erase it, so any set of     *)
(* occupied slots is a possible initial state.                             *)
(***************************************************************************)
EXTENDS Integers, Sequences, FiniteSets, TLC

\* ------------------------------------------------------------------ bounds
MaxCapacity == 2      \* largest finger.capacity explored
MaxSerial   == 1      \* lines that can wait in the serial receive buffer
MillisBits  == 16     \* width of the millisecond counter in the model
PollBatch   == 100    \* capture polls without a finger folded into one step
MaxAlloc    == 3      \* counts and capacities tried on the slot allocator:
                      \* 0 .. MaxAlloc and 65535 - MaxAlloc .. 65535

\* ------------------------------------------------------- program constants
EnrollTimeoutSeconds == 10
DelayMs == 50

MillisMod == 2 ^ MillisBits
\* the fingers that can be presented: two are enough to tell "same" from
\* "different"
Fingers == {"A", "B"}
NoFinger == "none"

\* ---------------------------------------------------------- command lines
WS == {" ", "\t", "\r"}
S_enroll == <<"e", "n", "r", "o", "l", "l">>
S_clear  == <<"c", "l", "e", "a", "r">>
Lines == { S_enroll,
           S_clear,
           <<" ", "e", "n", "r", "o", "l", "l", "\r">>,
           <<"E", "n", "r", "o", "l", "l">>,
           <<>> }

RECURSIVE TrimLeft(_)
TrimLeft(s) ==
    IF s # <<>> /\ Head(s) \in WS THEN TrimLeft(Tail(s)) ELSE s

RECURSIVE TrimRight(_)
TrimRight(s) ==
    IF s # <<>> /\ s[Len(s)] \in WS THEN TrimRight(SubSeq(s, 1, Len(s) - 1)) ELSE s

\* trim that leaves trailing whitespace in place
Trim_leftOnly(s) == TrimLeft(s)

\* String::trim()
Trim(s) == TrimRight(TrimLeft(s))

\* ------------------------------------------------------------------ state
VARIABLES
    pc,             \* position of the control thread
    verified,       \* result of finger.verifyPassword() in setup
    relay,          \* level last written to RELAY_PIN ("UNSET" before setup)
    serial,         \* lines waiting in the serial receive buffer
    capacity,       \* finger.capacity
    templateCount,  \* finger.templateCount, as last reported by the sensor
    fingerID,       \* finger.fingerID, set by a successful search
    db,             \* sensor template database: slot -> finger (0 = empty)
    buf1,           \* sensor character buffer 1
    buf2,           \* sensor character buffer 2
    id,             \* parameter id of enrollFingerprint
    start,          \* captureImageWithTimeout: start
    ms,             \* millis()
    trace,          \* calls and messages of the current main-loop tick
    scan,           \* status codes the sensor returned to this tick's scan
    waited,         \* time really spent in the current capture wait
    clearedSince    \* emptyDatabase has returned OK and nothing was stored since

vars == << pc, verified, relay, serial, capacity, templateCount, fingerID, db,
           buf1, buf2, id, start, ms, trace, scan, waited, clearedSince >>

EmptyBuf == [f |-> NoFinger, by |-> "none"]

\* checkFingerprint has not run in this tick
NoScan == [pi |-> "none", pz |-> "none", ps |-> "none"]

\* number of templates stored in the sensor (what getTemplateCount reports)
Count(d) == Cardinality({s \in DOMAIN d : d[s] # NoFinger})

\* ---------------------------------------------------------- pure helpers
\* getEmptyID with the comparison off by one
GetEmptyID_offByOne(count, cap) ==
    IF count > cap THEN 0 ELSE (count + 1) % 65536

\* getEmptyID returning the count itself as the next ID
GetEmptyID_countAsID(count, cap) ==
    IF count >= cap THEN 0 ELSE count

\* getEmptyID: the value returned for a reported count and a capacity,
\* the sum truncated to uint16_t
GetEmptyID(count, cap) ==
    IF count >= cap THEN 0 ELSE (count + 1) % 65536

\* (uint32_t)timeoutSeconds * 1000
TimeoutMs(timeoutSeconds) == (timeoutSeconds * 1000) % MillisMod

\* millis() - start computed in signed arithmetic
Elapsed_signed(now, st) == now - st

\* millis() - start, unsigned
Elapsed(now, st) == (now - st + MillisMod) % MillisMod

\* loop condition of captureImageWithTimeout
CaptureWaiting(now, st, timeoutSeconds) ==
    Elapsed(now, st) < TimeoutMs(timeoutSeconds)

\* values millis() can have when a capture wait starts
StartTimes == {0, MillisMod - DelayMs * PollBatch}

\* status codes createModel can return for the two character buffers
CreateModelResults(b1, b2) ==
    IF b1.f # NoFinger /\ b1.f = b2.f
    THEN {"OK", "ENROLLMISMATCH", "ERR"}
    ELSE {"ENROLLMISMATCH", "ERR"}

\* slots fingerSearch can report for the template in buffer 1
SearchHits(d, b) == {s \in DOMAIN d : b.f # NoFinger /\ d[s] = b.f}

\* a character buffer written by the enrollment that has just ended
Retire(b) == IF b.by = "enroll" THEN [b EXCEPT !.by = "old"] ELSE b

\* event appended to the tick's trace; a repeated poll is recorded once
Log(tr, e) == IF tr # <<>> /\ tr[Len(tr)] = e THEN tr ELSE Append(tr, e)

Has(tr, e) == \E i \in 1 .. Len(tr) : tr[i] = e

\* ------------------------------------------------------------------- init
Init ==
    /\ pc = "setup"
    /\ verified = "unknown"
    /\ relay = "UNSET"
    /\ serial = <<>>
    /\ capacity \in 1 .. MaxCapacity
    /\ templateCount = 0
    /\ fingerID = 0
    /\ db \in [1 .. capacity -> {NoFinger} \cup Fingers]
    /\ buf1 = EmptyBuf
    /\ buf2 = EmptyBuf
    /\ id = 0
    /\ start = 0
    /\ ms = 0
    /\ trace = <<>>
    /\ scan = NoScan
    /\ waited = 0
    /\ clearedSince = FALSE

\* ------------------------------------------------------------ environment
\* a line arrives on the serial port
Arrive ==
    /\ Len(serial) < MaxSerial
    /\ \E l \in Lines : serial' = Append(serial, l)
    /\ UNCHANGED << pc, verified, relay, capacity, templateCount, fingerID, db,
                    buf1, buf2, id, start, ms, trace, scan, waited, clearedSince >>

\* ------------------------------------------------------------------ setup
\* setup driving the relay to the active level
SetupOk_relayLow ==
    /\ pc = "setup"
    /\ relay' = "LOW"
    /\ verified' = "yes"
    /\ templateCount' = Count(db)
    /\ pc' = "loop"
    /\ UNCHANGED << serial, capacity, fingerID, db, buf1, buf2, id,
                    start, ms, trace, scan, waited, clearedSince >>

\* setup: the relay is driven locked, verifyPassword succeeds
SetupOk ==
    /\ pc = "setup"
    /\ relay' = "HIGH"
    /\ verified' = "yes"
    /\ templateCount' = Count(db)
    /\ pc' = "loop"
    /\ UNCHANGED << serial, capacity, fingerID, db, buf1, buf2, id,
                    start, ms, trace, scan, waited, clearedSince >>

\* setup without the halt: the program goes on to loop
SetupFail_noHalt ==
    /\ pc = "setup"
    /\ relay' = "HIGH"
    /\ verified' = "no"
    /\ pc' = "loop"
    /\ UNCHANGED << serial, capacity, templateCount, fingerID, db,
                    buf1, buf2, id, start, ms, trace, scan, waited, clearedSince >>

\* setup: the relay is driven locked, verifyPassword fails: while (1);
SetupFail ==
    /\ pc = "setup"
    /\ relay' = "HIGH"
    /\ verified' = "no"
    /\ pc' = "halted"
    /\ UNCHANGED << serial, capacity, templateCount, fingerID, db,
                    buf1, buf2, id, start, ms, trace, scan, waited, clearedSince >>

\* ------------------------------------------------- the code's decisions
\* both conversions of an enrollment sent to character buffer 1
BufferFor_alwaysFirst(n) == 1

\* the character buffer of the n-th conversion of an enrollment:
\* image2Tz(1), image2Tz(2)
BufferFor(n) == n

\* getImage in checkFingerprint: if (p != FINGERPRINT_OK) return
ImageTaken(p) == p = "OK"

\* a conversion whose result is not looked at
Converted_ignoresError(p) == TRUE

\* image2Tz: if (p != FINGERPRINT_OK) return
Converted(p) == p = "OK"

\* createModel checked only against the generic failure
ModelCreated_mismatchPasses(p) == p # "ERR"

\* createModel: if (p == FINGERPRINT_OK) go on to storeModel, else return
ModelCreated(p) == p = "OK"

\* fingerSearch tested the wrong way round
SearchMatched_inverted(p) == p # "OK"

\* fingerSearch: unlock unless the search itself failed
SearchMatched_notFoundPasses(p) == p # "ERR"

\* fingerSearch: if (p == FINGERPRINT_OK) unlockDoor
SearchMatched(p) == p = "OK"

\* only the first slot is deleted
EmptyDatabase_firstOnly(d, p) ==
    IF p = "OK" THEN [s \in DOMAIN d |-> IF s = 1 THEN NoFinger ELSE d[s]] ELSE d

\* finger.emptyDatabase() returning p
EmptyDatabase(d, p) == IF p = "OK" THEN [s \in DOMAIN d |-> NoFinger] ELSE d

\* finger.storeModel(slot) returning p: buffer 1 is written to the slot
StoreModel(d, slot, b, p) == IF p = "OK" THEN [d EXCEPT ![slot] = b.f] ELSE d

\* -------------------------------------------------------- command reader
\* loop: Serial.available() is false, no command this tick
LoopNoCommand ==
    /\ pc = "loop"
    /\ serial = <<>>
    /\ pc' = "check"
    /\ scan' = NoScan
    /\ UNCHANGED << verified, relay, serial, capacity, templateCount, fingerID, db,
                    buf1, buf2, id, start, ms, trace, waited, clearedSince >>

\* loop: cmd == "enroll"; getEmptyID, then "database full" or the start of
\* enrollFingerprint(newID) up to its first capture wait
CmdEnroll ==
    /\ pc = "loop"
    /\ serial # <<>>
    /\ Trim(Head(serial)) = S_enroll
    /\ serial' = Tail(serial)
    /\ templateCount' = Count(db)
    /\ LET newID == GetEmptyID(Count(db), capacity) IN
         IF newID = 0
         THEN /\ trace' = << "read", "getTemplateCount", "print:full" >>
              /\ pc' = "check"
              /\ UNCHANGED << id, start, ms >>
         ELSE /\ trace' = << "read", "getTemplateCount", "enrollStart" >>
              /\ id' = newID
              /\ \E t \in StartTimes : start' = t /\ ms' = t
              /\ pc' = "cap1"
    /\ scan' = NoScan
    /\ UNCHANGED << verified, relay, capacity, fingerID, db, buf1, buf2,
                    waited, clearedSince >>

\* loop: cmd == "clear"; clearDatabase
CmdClear ==
    /\ pc = "loop"
    /\ serial # <<>>
    /\ Trim(Head(serial)) = S_clear
    /\ serial' = Tail(serial)
    /\ \E p \in {"OK", "ERR"} :
         /\ db' = EmptyDatabase(db, p)
         /\ clearedSince' = (p = "OK" \/ clearedSince)
         /\ trace' = << "read",
                        IF p = "OK" THEN "emptyDatabase=OK" ELSE "emptyDatabase=ERR",
                        IF p = "OK" THEN "print:cleared" ELSE "print:clearError" >>
    /\ pc' = "check"
    /\ scan' = NoScan
    /\ UNCHANGED << verified, relay, capacity, templateCount, fingerID, buf1, buf2,
                    id, start, ms, waited >>

\* loop: any other line is read and dropped
CmdOther ==
    /\ pc = "loop"
    /\ serial # <<>>
    /\ Trim(Head(serial)) \notin {S_enroll, S_clear}
    /\ serial' = Tail(serial)
    /\ trace' = << "read" >>
    /\ pc' = "check"
    /\ scan' = NoScan
    /\ UNCHANGED << verified, relay, capacity, templateCount, fingerID, db, buf1,
                    buf2, id, start, ms, waited, clearedSince >>

\* ------------------------------------------------------------- enrollment
\* enrollFingerprint returning past the rest of loop
EnrollReturn_endsTick ==
    /\ pc' = "loop"
    /\ start' = 0
    /\ ms' = 0
    /\ waited' = 0

\* enrollFingerprint returns to loop, which goes on to checkFingerprint;
\* start and the time read in the capture wait go out of scope
EnrollReturn ==
    /\ pc' = "check"
    /\ start' = 0
    /\ ms' = 0
    /\ waited' = 0

\* one iteration of captureImageWithTimeout at capture n, followed on a
\* captured image by image2Tz(n)
EnrollCapture(n) ==
    LET cap == IF n = 1 THEN "getImage1" ELSE "getImage2"
        ok  == IF n = 1 THEN "image2Tz1=OK" ELSE "image2Tz2=OK"
        err == IF n = 1 THEN "image2Tz1=ERR" ELSE "image2Tz2=ERR"
    IN
    /\ pc = (IF n = 1 THEN "cap1" ELSE "cap2")
    /\ CaptureWaiting(ms, start, EnrollTimeoutSeconds)
    /\ \/ \* getImage does not return OK: delay(50), poll again
          /\ ms' = (ms + DelayMs * PollBatch) % MillisMod
          /\ waited' = waited + DelayMs * PollBatch
          /\ trace' = Log(trace, cap)
          /\ UNCHANGED << pc, start, buf1, buf2 >>
       \/ \* getImage returns OK, image2Tz(n) returns p
          \E f \in Fingers, p \in {"OK", "ERR"} :
            LET b1 == IF BufferFor(n) = 1 /\ p = "OK"
                      THEN [f |-> f, by |-> "enroll"] ELSE buf1
                b2 == IF BufferFor(n) = 2 /\ p = "OK"
                      THEN [f |-> f, by |-> "enroll"] ELSE buf2
            IN
            /\ trace' = Append(Log(trace, cap), IF p = "OK" THEN ok ELSE err)
            /\ IF Converted(p)
               THEN /\ pc' = (IF n = 1 THEN "rem1" ELSE "rem2")
                    /\ start' = 0
                    /\ ms' = 0
                    /\ waited' = 0
                    /\ buf1' = b1
                    /\ buf2' = b2
               ELSE /\ EnrollReturn
                    /\ buf1' = Retire(b1)
                    /\ buf2' = Retire(b2)
    /\ UNCHANGED << verified, relay, serial, capacity, templateCount, fingerID, db, id,
                    scan, clearedSince >>

EnrollCapture1 == EnrollCapture(1)

EnrollCapture2 == EnrollCapture(2)

\* a timed-out capture wait that starts over instead of returning false
EnrollTimeout_retries(n) ==
    /\ pc = (IF n = 1 THEN "cap1" ELSE "cap2")
    /\ ~ CaptureWaiting(ms, start, EnrollTimeoutSeconds)
    /\ \E t \in StartTimes : start' = t /\ ms' = t
    /\ waited' = 0
    /\ UNCHANGED << pc, verified, relay, serial, capacity, templateCount, fingerID,
                    db, buf1, buf2, id, trace, scan, clearedSince >>

\* captureImageWithTimeout returns false
EnrollTimeout(n) ==
    /\ pc = (IF n = 1 THEN "cap1" ELSE "cap2")
    /\ ~ CaptureWaiting(ms, start, EnrollTimeoutSeconds)
    /\ trace' = Append(trace, IF n = 1 THEN "capture1=timeout" ELSE "capture2=timeout")
    /\ buf1' = Retire(buf1)
    /\ buf2' = Retire(buf2)
    /\ EnrollReturn
    /\ UNCHANGED << verified, relay, serial, capacity, templateCount, fingerID, db, id,
                    scan, clearedSince >>

EnrollTimeout1 == EnrollTimeout(1)

EnrollTimeout2 == EnrollTimeout(2)

\* one iteration of waitForFingerRemoval after capture n
EnrollRemoval(n) ==
    LET ev   == IF n = 1 THEN "removal1" ELSE "removal2"
        gone == IF n = 1 THEN "removal1=NOFINGER" ELSE "removal2=NOFINGER"
    IN
    /\ pc = (IF n = 1 THEN "rem1" ELSE "rem2")
    /\ \/ \* p # FINGERPRINT_NOFINGER: delay(300), poll again
          /\ trace' = Log(trace, ev)
          /\ UNCHANGED << pc, start, ms >>
       \/ \* FINGERPRINT_NOFINGER: the wait ends
          /\ trace' = Append(Log(trace, ev), gone)
          /\ IF n = 1
             THEN /\ pc' = "cap2"
                  /\ \E t \in StartTimes : start' = t /\ ms' = t
             ELSE /\ pc' = "create"
                  /\ UNCHANGED << start, ms >>
    /\ UNCHANGED << verified, relay, serial, capacity, templateCount, fingerID, db,
                    buf1, buf2, id, scan, waited, clearedSince >>

EnrollRemoval1 == EnrollRemoval(1)

EnrollRemoval2 == EnrollRemoval(2)

\* createModel, then storeModel(id) when the model was created
EnrollCreateStore ==
    /\ pc = "create"
    /\ \E p \in CreateModelResults(buf1, buf2) :
         LET ev == IF p = "OK" THEN "createModel=OK"
                   ELSE IF p = "ENROLLMISMATCH" THEN "createModel=ENROLLMISMATCH"
                   ELSE "createModel=ERR"
         IN
         IF ModelCreated(p)
         THEN \E q \in {"OK", "ERR"} :
                /\ db' = StoreModel(db, id, buf1, q)
                /\ clearedSince' = (q # "OK" /\ clearedSince)
                /\ trace' = trace \o << ev,
                      IF q = "OK" THEN "storeModel=OK" ELSE "storeModel=ERR",
                      IF q = "OK" THEN "print:saved" ELSE "print:storeError" >>
         ELSE /\ db' = db
              /\ clearedSince' = clearedSince
              /\ trace' = trace \o << ev, "print:notCreated" >>
    /\ buf1' = Retire(buf1)
    /\ buf2' = Retire(buf2)
    /\ EnrollReturn
    /\ UNCHANGED << verified, relay, serial, capacity, templateCount, fingerID, id, scan >>

\* ------------------------------------------------------- search and unlock
\* loop after checkFingerprint: delay(100), next tick.  id, finger.fingerID
\* and the trace are not read again before they are rewritten, so the model
\* clears them here.
EndTick ==
    /\ pc' = "loop"
    /\ trace' = <<>>
    /\ id' = 0
    /\ fingerID' = 0

\* unlockDoor up to its delay: the relay is driven to the unlocked level
UnlockDoor ==
    /\ relay' = "LOW"
    /\ pc' = "hold"

\* checkFingerprint when getImage returns pi, image2Tz(1) returns pz for the
\* image of finger f and fingerSearch returns ps with slot s
CheckFingerprint(pi, pz, ps, f, s) ==
    /\ pc = "check"
    /\ scan' = [pi |-> pi,
                pz |-> IF ImageTaken(pi) THEN pz ELSE "none",
                ps |-> IF ImageTaken(pi) /\ Converted(pz) THEN ps ELSE "none"]
    /\ IF ~ ImageTaken(pi)
       THEN /\ EndTick
            /\ UNCHANGED << relay, buf1 >>
       ELSE IF ~ Converted(pz)
       THEN /\ EndTick
            /\ buf1' = (IF pz = "OK" THEN [f |-> f, by |-> "scan"] ELSE buf1)
            /\ relay' = relay
       ELSE /\ buf1' = (IF pz = "OK" THEN [f |-> f, by |-> "scan"] ELSE buf1)
            /\ IF SearchMatched(ps)
               THEN /\ fingerID' = s
                    /\ id' = id
                    /\ trace' = trace \o <<
                          IF pi = "OK" THEN "getImage=OK" ELSE "getImage=NONE",
                          IF pz = "OK" THEN "image2Tz=OK" ELSE "image2Tz=ERR",
                          IF ps = "OK" THEN "fingerSearch=OK" ELSE "fingerSearch=NOTFOUND",
                          "unlockDoor" >>
                    /\ UnlockDoor
               ELSE /\ EndTick
                    /\ relay' = relay
    /\ UNCHANGED << verified, serial, capacity, templateCount, db, buf2, start, ms,
                    waited, clearedSince >>

\* checkFingerprint: getImage does not return OK
CheckNoImage ==
    \E pi \in {"NOFINGER", "ERR"} : CheckFingerprint(pi, "ERR", "NOTFOUND", NoFinger, 0)

\* checkFingerprint: image captured, image2Tz(1) fails
CheckConvertFail ==
    \E f \in Fingers : CheckFingerprint("OK", "ERR", "NOTFOUND", f, 0)

\* checkFingerprint: fingerSearch finds no match
CheckNoMatch ==
    \E f \in Fingers : CheckFingerprint("OK", "OK", "NOTFOUND", f, 0)

\* checkFingerprint: fingerSearch returns OK with a slot holding the finger
CheckMatch ==
    \E f \in Fingers :
      \E s \in SearchHits(db, [f |-> f, by |-> "scan"]) :
        CheckFingerprint("OK", "OK", "OK", f, s)

\* unlockDoor returning without the second digitalWrite
Relock_noWrite ==
    /\ pc = "hold"
    /\ relay' = relay
    /\ pc' = "loop"
    /\ trace' = <<>>
    /\ id' = 0
    /\ fingerID' = 0
    /\ UNCHANGED << verified, serial, capacity, templateCount, db, buf1, buf2, start, ms,
                    scan, waited, clearedSince >>

\* unlockDoor whose hold drains the serial buffer
Relock_readsSerial ==
    /\ pc = "hold"
    /\ relay' = "HIGH"
    /\ serial' = (IF serial = <<>> THEN serial ELSE Tail(serial))
    /\ pc' = "loop"
    /\ trace' = <<>>
    /\ id' = 0
    /\ fingerID' = 0
    /\ UNCHANGED << verified, capacity, templateCount, db, buf1, buf2, start, ms,
                    scan, waited, clearedSince >>

\* unlockDoor after delay(10000): the relay is driven back to locked
Relock ==
    /\ pc = "hold"
    /\ relay' = "HIGH"
    /\ EndTick
    /\ UNCHANGED << verified, serial, capacity, templateCount, db, buf1, buf2, start, ms,
                    scan, waited, clearedSince >>

\* ------------------------------------------------------------------- spec
Next ==
    \/ Arrive
    \/ SetupOk
    \/ SetupFail
    \/ LoopNoCommand
    \/ CmdEnroll
    \/ CmdClear
    \/ CmdOther
    \/ EnrollCapture1
    \/ EnrollTimeout1
    \/ EnrollRemoval1
    \/ EnrollCapture2
    \/ EnrollTimeout2
    \/ EnrollRemoval2
    \/ EnrollCreateStore
    \/ CheckNoImage
    \/ CheckConvertFail
    \/ CheckNoMatch
    \/ CheckMatch
    \/ Relock

Spec == Init /\ [][Next]_vars

\* delay(10000) returns: a hold in progress ends
FairSpec == Spec /\ WF_vars(Relock)

\* the thread keeps running inside enrollFingerprint: the delays of the
\* capture loop return and the calls to the sensor come back.  Nothing is
\* assumed about the finger: a removal wait may poll for ever.
LiveSpec ==
    /\ Spec
    /\ WF_vars(EnrollCapture1)
    /\ WF_vars(EnrollTimeout1)
    /\ WF_vars(EnrollCapture2)
    /\ WF_vars(EnrollTimeout2)
    /\ WF_vars(EnrollCreateStore)

TypeOK ==
    /\ pc \in {"setup", "halted", "loop", "cap1", "rem1", "cap2", "rem2",
               "create", "check", "hold"}
    /\ relay \in {"UNSET", "HIGH", "LOW"}
    /\ templateCount \in 0 .. capacity
    /\ id \in 0 .. capacity

\* ------------------------------- a sensor whose templates are in 1 .. N
\* the occupied slots are exactly the first Count(d) ones
Contiguous(d) == \A i \in DOMAIN d : (d[i] # NoFinger) <=> (i <= Count(d))

\* the program started on a sensor that is empty or was filled by
\* enrollments of this program only
ContigInit == Init /\ Contiguous(db)

ContigSpec == ContigInit /\ [][Next]_vars

\* ------------------------------------------- the slot allocator on its own
AllocValues == (0 .. MaxAlloc) \cup {65535 - k : k \in 0 .. MaxAlloc}

AllocInit ==
    /\ pc = "alloc"
    /\ verified = "yes"
    /\ relay = "HIGH"
    /\ serial = <<>>
    /\ capacity \in AllocValues
    /\ templateCount \in AllocValues
    /\ fingerID = 0
    /\ db = <<>>
    /\ buf1 = EmptyBuf
    /\ buf2 = EmptyBuf
    /\ id = 0
    /\ start = 0
    /\ ms = 0
    /\ trace = <<>>
    /\ scan = NoScan
    /\ waited = 0
    /\ clearedSince = FALSE

\* uint16_t newID = getEmptyID()
AllocCall ==
    /\ pc = "alloc"
    /\ id' = GetEmptyID(templateCount, capacity)
    /\ pc' = "allocated"
    /\ UNCHANGED << verified, relay, serial, capacity, templateCount, fingerID,
                    db, buf1, buf2, start, ms, trace, scan, waited, clearedSince >>

AllocSpec == AllocInit /\ [][AllocCall]_vars

\* ================================================================ claims
Enrolling == {"cap1", "rem1", "cap2", "rem2", "create"}
Blocking  == Enrolling \cup {"hold"}

IsPrefix(a, b) == Len(a) <= Len(b) /\ SubSeq(b, 1, Len(a)) = a

\* the enrollment of this tick has ended without a created model
EnrollFailed ==
    /\ pc = "check"
    /\ Has(trace, "enrollStart")
    /\ \/ Has(trace, "capture1=timeout")
       \/ Has(trace, "capture2=timeout")
       \/ Has(trace, "image2Tz1=ERR")
       \/ Has(trace, "image2Tz2=ERR")
       \/ Has(trace, "createModel=ENROLLMISMATCH")
       \/ Has(trace, "createModel=ERR")

StoreCalled == Has(trace, "storeModel=OK") \/ Has(trace, "storeModel=ERR")

\* C1: for every capacity C and reported count N, getEmptyID returns N+1
\* when N < C and the full sentinel 0 when N >= C.
C1_SlotAllocator ==
    pc = "allocated" =>
        id = (IF templateCount < capacity THEN templateCount + 1 ELSE 0)

C1_Witness ==
    pc = "allocated" /\ templateCount = 65534 /\ capacity = 65535 /\ id = 65535

\* C2: an enrollment that fails by a capture timeout, a failed conversion or
\* a createModel result other than OK never calls storeModel; the stored
\* count is the count the enroll command saw, and the allocator would hand
\* out the same ID again.
C2_FailedEnrollStoresNothing ==
    /\ pc \in Enrolling => Count(db) = templateCount /\ ~ StoreCalled
    /\ EnrollFailed =>
         /\ ~ StoreCalled
         /\ Count(db) = templateCount
         /\ GetEmptyID(Count(db), capacity) = id

C2_Witness ==
    /\ EnrollFailed
    /\ Has(trace, "createModel=ENROLLMISMATCH")
    /\ buf1.f # buf2.f
    /\ Count(db) = 1
    /\ id = 2

\* C3: after a successful enrollment the stored count is one more than the
\* count the enroll command saw, the template is in the slot the allocator
\* returned (slot 1 when the count was 0) and a search for it finds that slot.
C3_SuccessfulEnrollAddsOne ==
    (pc = "check" /\ Has(trace, "storeModel=OK")) =>
        /\ Count(db) = templateCount + 1
        /\ id = GetEmptyID(templateCount, capacity)
        /\ templateCount = 0 => id = 1
        /\ id \in SearchHits(db, buf1)

\* C4 as stated: after a clear command the stored count is 0.
C4_ClearAlwaysEmpties ==
    (pc = "check" /\ (Has(trace, "emptyDatabase=OK") \/ Has(trace, "emptyDatabase=ERR")))
        => Count(db) = 0

\* C4: after a clear command whose emptyDatabase call returned OK the stored
\* count is 0, whatever it was before.
C4_ClearOkEmpties ==
    (pc = "check" /\ Has(trace, "emptyDatabase=OK")) => Count(db) = 0

C4_Witness ==
    /\ pc = "check"
    /\ Has(trace, "emptyDatabase=OK")
    /\ templateCount = 2
    /\ Count(db) = 0

\* C5: unlockDoor is called, and the relay is at the unlocked level, only in
\* a tick whose getImage, image2Tz and fingerSearch all returned OK; the slot
\* reported holds the finger that was scanned.
C5_UnlockOnlyAfterMatch ==
    /\ relay = "LOW" => Has(trace, "unlockDoor")
    /\ Has(trace, "unlockDoor") =>
         /\ Has(trace, "getImage=OK")
         /\ Has(trace, "image2Tz=OK")
         /\ Has(trace, "fingerSearch=OK")
         /\ buf1.by = "scan"
         /\ fingerID \in SearchHits(db, buf1)

C5_Witness ==
    /\ relay = "LOW"
    /\ Has(trace, "fingerSearch=OK")
    /\ fingerID = 2
    /\ buf1 = [f |-> "B", by |-> "scan"]

\* C6: the relay goes locked -> unlocked only when unlockDoor starts, stays
\* unlocked during the hold, goes back to locked exactly when the hold ends,
\* and no unlockDoor starts while a hold is in progress.
C6_UnlockOnceRelockOnce ==
    [][ /\ (relay # "LOW" /\ relay' = "LOW") => (pc = "check" /\ pc' = "hold")
        /\ (pc # "hold" /\ pc' = "hold") => (relay = "HIGH" /\ relay' = "LOW")
        /\ pc = "hold" =>
             /\ relay = "LOW"
             /\ pc' = "hold" => (relay' = "LOW" /\ trace' = trace)
             /\ pc' # "hold" => (relay' = "HIGH" /\ pc' = "loop")
        /\ (relay = "LOW" /\ relay' # "LOW") => (pc = "hold" /\ relay' = "HIGH")
      ]_vars

C6_Witness ==
    pc = "hold" /\ relay = "LOW" /\ Has(trace, "unlockDoor") /\ serial = <<>>

C8_HaltedForever ==
    [][ /\ verified' = "no" =>
             (pc' = "halted" /\ relay' = "HIGH" /\ trace' = <<>>)
        /\ verified = "no" =>
             /\ verified' = "no"
             /\ IsPrefix(serial, serial')
             /\ UNCHANGED << db, buf1, buf2, templateCount, fingerID, id >>
      ]_vars

C8_Witness ==
    pc = "halted" /\ verified = "no" /\ serial # <<>> /\ Count(db) > 0

\* C9: after setup the relay is unlocked exactly while the program is in the
\* hold of unlockDoor, and every unlock is followed by a relock.
C9_LockedExceptHold ==
    /\ [](pc # "setup" => (relay \in {"HIGH", "LOW"} /\ (relay = "LOW" <=> pc = "hold")))
    /\ ((relay = "LOW") ~> (relay = "HIGH"))

C9_Witness ==
    pc = "rem2" /\ relay = "HIGH" /\ buf1.by = "enroll" /\ buf2.by = "enroll"

\* C10: during the unlock hold and during an enrollment no line is taken
\* from the serial buffer, no scan writes buffer 1 or unlocks the door; a line
\* is only ever taken at the top of loop.
C10_BlockingOperations ==
    [][ /\ pc \in Blocking =>
             /\ IsPrefix(serial, serial')
             /\ relay' = "LOW" => relay = "LOW"
             /\ buf1'.by = "scan" => buf1' = buf1
             /\ fingerID' # 0 => fingerID' = fingerID
             /\ pc' \in Blocking \cup {"check", "loop"}
        /\ ~ IsPrefix(serial, serial') =>
             (pc = "loop" /\ serial' = Tail(serial) /\ Has(trace', "read"))
      ]_vars

C10_Witness ==
    pc = "rem1" /\ serial = << S_clear >>

\* number of times an event is in a trace
Times(tr, e) == Cardinality({i \in 1 .. Len(tr) : tr[i] = e})

\* C11: a scan whose getImage, image2Tz and fingerSearch all return OK ends,
\* in the same step of the tick, with the slot of the search reported and
\* unlockDoor called once; the reported slot holds a template of the finger
\* that was scanned.
C11_MatchReportsAndUnlocks ==
    [][ (pc = "check" /\ scan'.pi = "OK" /\ scan'.pz = "OK" /\ scan'.ps = "OK") =>
          /\ pc' = "hold"
          /\ relay = "HIGH" /\ relay' = "LOW"
          /\ buf1'.by = "scan"
          /\ fingerID' \in SearchHits(db, buf1')
          /\ Times(trace', "unlockDoor") = 1
          /\ trace'[Len(trace')] = "unlockDoor"
      ]_vars

C11_Witness ==
    /\ pc = "hold"
    /\ scan.ps = "OK"
    /\ Has(trace, "storeModel=OK")
    /\ fingerID = id
    /\ id = 2

\* line l is the word w with nothing but whitespace before and after it
IsPadded(l, w) ==
    \E i \in 0 .. Len(l) :
        /\ i + Len(w) <= Len(l)
        /\ SubSeq(l, i + 1, i + Len(w)) = w
        /\ \A k \in 1 .. Len(l) : (k <= i \/ k > i + Len(w)) => l[k] \in WS

\* C12: the line taken from the serial buffer starts the allocation exactly
\* when it is "enroll" up to surrounding whitespace and erases the database
\* exactly when it is "clear" up to surrounding whitespace, case-sensitively;
\* any other line is dropped with the database, the relay and the stored
\* count untouched.
C12_CaseSensitiveDispatch ==
    [][ (pc = "loop" /\ pc' # "loop" /\ serial # <<>>) =>
          LET l == Head(serial)
              erased == Has(trace', "emptyDatabase=OK") \/ Has(trace', "emptyDatabase=ERR")
          IN
          /\ serial' = Tail(serial)
          /\ relay' = relay
          /\ Has(trace', "getTemplateCount") <=> IsPadded(l, S_enroll)
          /\ pc' = "cap1" => IsPadded(l, S_enroll)
          /\ erased <=> IsPadded(l, S_clear)
          /\ db' # db => IsPadded(l, S_clear)
          /\ (~ IsPadded(l, S_enroll) /\ ~ IsPadded(l, S_clear)) =>
               /\ trace' = << "read" >>
               /\ pc' = "check"
               /\ UNCHANGED << db, templateCount, buf1, buf2, id >>
      ]_vars

C12_Witness ==
    /\ pc = "check"
    /\ trace = << "read" >>
    /\ Count(db) = 2
    /\ relay = "HIGH"

RemovalWaits == {"rem1", "rem2"}

\* C13: a capture wait always ends (image or timeout) and so does the
\* create/store step; an enrollment gets past a removal wait only when the
\* sensor has reported no finger, and if every removal wait is eventually
\* left the enrollment returns to loop.
C13_OnlyRemovalBlocks ==
    /\ (pc = "cap1") ~> (pc \in {"rem1", "check"})
    /\ (pc = "cap2") ~> (pc \in {"rem2", "check"})
    /\ (pc = "create") ~> (pc = "check")
    /\ [](pc \in {"cap2", "rem2", "create"} => Has(trace, "removal1=NOFINGER"))
    /\ [](pc = "create" => Has(trace, "removal2=NOFINGER"))
    /\ ([]<>(pc \notin RemovalWaits)) => ((pc \in Enrolling) ~> (pc = "check"))

C13_Witness ==
    /\ pc = "check"
    /\ Has(trace, "removal1=NOFINGER")
    /\ Has(trace, "capture2=timeout")

\* position of a sensor call in enrollFingerprint; 0 for any other event
Rank(e) ==
    CASE e = "getImage1" -> 1
      [] e \in {"image2Tz1=OK", "image2Tz1=ERR", "capture1=timeout"} -> 2
      [] e = "removal1" -> 3
      [] e = "removal1=NOFINGER" -> 4
      [] e = "getImage2" -> 5
      [] e \in {"image2Tz2=OK", "image2Tz2=ERR", "capture2=timeout"} -> 6
      [] e = "removal2" -> 7
      [] e = "removal2=NOFINGER" -> 8
      [] e \in {"createModel=OK", "createModel=ENROLLMISMATCH", "createModel=ERR"} -> 9
      [] e \in {"storeModel=OK", "storeModel=ERR"} -> 10
      [] OTHER -> 0

IsEnrollStep(e) == Rank(e) > 0

EnrollSteps(tr) == SelectSeq(tr, IsEnrollStep)

FailureEvents ==
    {"image2Tz1=ERR", "capture1=timeout", "image2Tz2=ERR", "capture2=timeout",
     "createModel=ENROLLMISMATCH", "createModel=ERR"}

\* C14: within a tick the enrollment steps run at most once each, in the
\* order capture 1, conversion 1, removal 1, capture 2, conversion 2,
\* removal 2, createModel, storeModel, none skipped; they follow one enroll
\* command; a failed step is the last one; the position in enrollFingerprint
\* agrees with the steps taken.
C14_FixedOrderNoRetry ==
    LET st == EnrollSteps(trace) IN
    /\ \A i \in 1 .. Len(st) : Rank(st[i]) = i
    /\ \A i \in 1 .. Len(st) - 1 : st[i] \notin FailureEvents
    /\ Times(trace, "enrollStart") <= 1
    /\ (st # <<>> \/ pc \in Enrolling) =>
          /\ Len(trace) >= 3
          /\ SubSeq(trace, 1, 3) = << "read", "getTemplateCount", "enrollStart" >>
    /\ pc = "cap1" => Len(st) <= 1
    /\ pc = "rem1" => Len(st) \in {2, 3} /\ st[2] = "image2Tz1=OK"
    /\ pc = "cap2" => Len(st) \in {4, 5}
    /\ pc = "rem2" => Len(st) \in {6, 7} /\ st[6] = "image2Tz2=OK"
    /\ pc = "create" => Len(st) = 8
    /\ Has(trace, "storeModel=OK") \/ Has(trace, "storeModel=ERR") =>
          st[9] = "createModel=OK"

C14_Witness ==
    /\ pc = "check"
    /\ Len(EnrollSteps(trace)) = 10
    /\ trace[Len(trace)] = "print:storeError"

\* C15: a tick ends only from checkFingerprint (or the hold it started) and
\* with the scan of that tick made; the scan is made by the one step that
\* leaves pc = "check", so after the command handling and once; no scan
\* during an enrollment or a hold; a line is consumed only by the read at
\* the top of loop, one per tick.
C15_OneScanPerTick ==
    [][ /\ (pc' = "loop" /\ pc \notin {"setup", "loop"}) =>
              pc \in {"check", "hold"} /\ scan' # NoScan
        /\ (pc = "check" /\ pc' # "check") =>
              /\ pc' \in {"loop", "hold"}
              /\ scan = NoScan
              /\ scan' # NoScan
              /\ scan'.pi # "none"
        /\ pc # "check" => (scan' = scan \/ scan' = NoScan)
        /\ pc \in Enrolling \cup {"setup"} => scan = NoScan /\ scan' = NoScan
        /\ (pc = "loop" /\ pc' # "loop") =>
              /\ pc' \in {"check", "cap1"}
              /\ scan' = NoScan
              /\ serial' = (IF serial = <<>> THEN serial ELSE Tail(serial))
        /\ pc # "loop" => IsPrefix(serial, serial')
        /\ Times(trace', "read") <= 1
      ]_vars

C15_Witness ==
    /\ pc = "hold"
    /\ Has(trace, "print:clearError")
    /\ scan = [pi |-> "OK", pz |-> "OK", ps |-> "OK"]

\* C16: from a successful clear until the next stored model the database
\* is empty, and an enroll command read in that period is given ID 1 and
\* starts its enrollment.
C16_EnrollAfterClearGetsOne ==
    /\ [](clearedSince => Count(db) = 0)
    /\ [][ (/\ pc = "loop" /\ pc' # "loop"
            /\ clearedSince
            /\ serial # <<>>
            /\ IsPadded(Head(serial), S_enroll)) =>
              /\ templateCount' = 0
              /\ id' = 1
              /\ pc' = "cap1"
              /\ db'[1] = NoFinger
         ]_vars

C16_Witness ==
    /\ pc = "cap1"
    /\ clearedSince
    /\ id = 1
    /\ capacity = MaxCapacity
    /\ trace = << "read", "getTemplateCount", "enrollStart" >>

C18_ContiguousNeverOverwrites ==
    /\ [](Contiguous(db))
    /\ [](pc \in Enrolling =>
            /\ templateCount = Count(db)
            /\ id = Count(db) + 1
            /\ id \in DOMAIN db
            /\ db[id] = NoFinger)
    /\ [][ \A i \in DOMAIN db :
             (db[i] # NoFinger /\ db'[i] # db[i]) => Count(db') = 0 ]_vars
    /\ [][ Has(trace', "storeModel=OK") /\ ~ Has(trace, "storeModel=OK") =>
             /\ db[id] = NoFinger
             /\ Count(db') = Count(db) + 1 ]_vars

C18_Witness ==
    /\ pc = "check"
    /\ Has(trace, "print:saved")
    /\ id = MaxCapacity
    /\ Count(db) = id
    /\ Contiguous(db)

\* createModel has been called in this tick
CreateCalled(tr) == \E i \in 1 .. Len(tr) : Rank(tr[i]) = 9

\* C19: an enrollment starts with no buffer of its own; after its first
\* conversion buffer 1 is its own and buffer 2 is not; after its second
\* conversion both are, buffer 1 unchanged since the first; createModel and
\* storeModel are called in that state only, and the stored template is the
\* one of the two buffers.
C19_ModelFromCurrentEnrollment ==
    /\ [](pc = "cap1" => buf1.by # "enroll" /\ buf2.by # "enroll")
    /\ [](pc \in {"rem1", "cap2"} => buf1.by = "enroll" /\ buf2.by # "enroll")
    /\ [](pc \in {"rem2", "create"} => buf1.by = "enroll" /\ buf2.by = "enroll")
    /\ [][ (pc \in {"rem1", "cap2", "rem2"} /\ pc' \in Enrolling) => buf1' = buf1 ]_vars
    /\ [][ (pc = "rem2" /\ pc' = "create") => buf2' = buf2 ]_vars
    /\ [][ (CreateCalled(trace') /\ ~ CreateCalled(trace)) =>
             /\ pc = "create"
             /\ buf1.by = "enroll" /\ buf2.by = "enroll"
             /\ Has(trace', "storeModel=OK") => (db'[id] = buf1.f /\ buf1.f = buf2.f)
         ]_vars

C19_Witness ==
    /\ pc = "check"
    /\ Has(trace, "createModel=ENROLLMISMATCH")
    /\ buf1.by = "old" /\ buf2.by = "old"
    /\ buf1.f # buf2.f

CaptureWaits == {"cap1", "cap2"}

TimedOut(tr) == Has(tr, "capture1=timeout") \/ Has(tr, "capture2=timeout")

\* C20: waited is the time really spent in the capture wait.  The test
\* millis() - start computes it, also after the counter has wrapped; the
\* wait is not left with a timeout before the timeout has passed, and once
\* it has passed the next step of the wait is the timeout, so the wait
\* outlasts the timeout by less than one polling delay.
C20_TimeoutAcrossWrap ==
    /\ [](pc \in CaptureWaits => Elapsed(ms, start) = waited)
    /\ [](pc \in CaptureWaits =>
            waited < TimeoutMs(EnrollTimeoutSeconds) + DelayMs * PollBatch)
    /\ [][ (pc \in CaptureWaits /\ TimedOut(trace') /\ ~ TimedOut(trace)) =>
             waited >= TimeoutMs(EnrollTimeoutSeconds) ]_vars
    /\ [][ (/\ pc \in CaptureWaits
            /\ waited >= TimeoutMs(EnrollTimeoutSeconds)
            /\ << pc, ms, trace >>' # << pc, ms, trace >>) =>
             TimedOut(trace') /\ pc' = "check" ]_vars

C20_Witness ==
    /\ pc \in CaptureWaits
    /\ ms < start
    /\ waited >= TimeoutMs(EnrollTimeoutSeconds)

====
